---- MODULE Spec2Model ----
(***************************************************************************)
(* Model of the NFC reader service (nfc_service.rs : run and its helpers), *)
(* the PC/SC resource manager and hardware it talks to, the command        *)
(* channel filled by the WebSocket connections (ws.rs), and the two-hop    *)
(* event bridge (main.rs, ws.rs).                                          *)
(*                                                                         *)
(* Spec       : hardware + resource manager + reader thread.               *)
(* SpecLive   : Spec with a reader thread that keeps running (fairness).  *)
(* SpecCmd    : Spec with the WebSocket connections enqueueing commands.   *)
(* SpecBridge : reader thread's sends -> bridge channel -> broadcast(100)  *)
(*              -> forwarder -> broadcast(32) -> per-client send task.     *)
(* SpecTag    : one tag on a connected reader, Write commands and          *)
(*              insertion reads at byte level (cards.rs, apdu.rs).         *)
(* SpecCodec  : the NDEF codec functions (ndef.rs) on bounded inputs.      *)
(***************************************************************************)
EXTENDS Integers, Sequences, FiniteSets, TLC

(***************************************************************************)
(* Bounds of the model.                                                    *)
(***************************************************************************)
\* hardware events (plug, unplug, insert, remove, stop, start) in one run of Spec
MaxHw == 5
\* hardware events in one run of SpecCmd
MaxHwCmd == 2
\* hardware events in a run of SpecLive
MaxHwLive == 3
\* commands enqueued by the WebSocket connections in one run of SpecCmd
MaxCmds == 2
\* READER_STATUS values remembered per context session (history)
MaxLog == 3
\* saturation of the history counters
MaxCount == 2

\* events the reader thread sends in one run of SpecBridge
MaxEvents == 4
\* capacity of the event broadcast channel (100 in main.rs), scaled down
EvCap == 2
\* capacity of the WebSocket broadcast channel (32 in ws.rs), scaled down
WsCap == 2

\* pages of user memory of the NTAG in SpecTag (144 bytes, an NTAG213)
NtagPages == 36
\* length of the long text written in SpecTag (more than one MIFARE sector)
LongLen == 60
\* the MIFARE sectors whose keys vary in SpecTag are 1..MaxKeyedSector
MaxKeyedSector == 2

\* longest text put through the single-record codec in SpecCodec
MaxTextLen == 250
\* longest record list put through the multi-record codec in SpecCodec
MaxRecords == 2
\* length of the long record content in SpecCodec (under 200)
BigLen == 130
\* longest byte string handed to wrap_in_tlv in SpecCodec
MaxWrapLen == 256

\* longest arbitrary buffer handed to parse_ndef_records in SpecCodec
MaxBufLen == 3

\* length of the record content whose wrapped message is 720 bytes
FullLen == 710
\* pages of user memory of the large NTAG in SpecTag (pages 4..255)
BigPages == 252
\* declared lengths of the long messages on the large NTAG
MidDeclared == 300
LongDeclared == 1020

\* the readers of the machine, by name
Readers == {1, 2}
\* the name of the PnP pseudo-reader, index 0 of reader_states in the code
PNP_NOTIFICATION == 0
\* the WebSocket connections
Clients == {1, 2}
\* decoded text contents a card can carry
Texts == {"t1", "t2"}
\* a card whose memory does not decode as an NDEF text record
Blank == "blank"
Contents == Texts \cup {Blank}
\* Option<String>::None
None == "None"

VARIABLES
    \* ---- PC/SC resource manager and hardware
    svc,             \* the resource manager is running
    ctx_ok,          \* the context held by the reader thread is valid
    plugged,         \* readers currently plugged
    card,            \* card[r] = [present, data]: the card resting on r
    hwFuel,          \* hardware events left in this run
    \* ---- reader thread (nfc_service.rs : run)
    pc,              \* position in run()
    reader_connected,
    card_present,
    last_data_read,
    reader_names,
    reader_states,   \* index 1 is the PnP sentinel (code index 0)
    idx,             \* the card-event loop's i (code index)
    \* ---- command channel (crossbeam unbounded, ws.rs -> run)
    cmdq,
    nextCmd,         \* commands enqueued so far
    cmdFuel,         \* commands the connections may still enqueue
    \* ---- observation (history) variables
    emitted,         \* events sent on tx by the reader thread's last step
    h,               \* record of history counters, see HInit
    \* ---- event bridge (main.rs, ws.rs); an event is its production number
    produced,        \* events the reader thread has sent on bridge_tx
    bridge_q,        \* bridge channel (crossbeam unbounded)
    evLog,           \* values stored by event_tx.send, oldest first
    fwd,             \* forwarder task: [alive, pos] on the event broadcast
    wsLog,           \* values stored by ws_tx.send, oldest first
    clients,         \* per connection: [st, pos, got]
    \* ---- the tag on the reader (cards.rs) and what the service did with it
    tag,             \* [family, mem, auth]
    tagEv,           \* events of the last insertion read or Write command
    tagOp,           \* [name, data]: the last operation and the bytes it wrote
    apdus,           \* the commands it sent to the reader, in order
    readRes,         \* what its read of the tag returned
    \* ---- one message through the NDEF codec (ndef.rs)
    job,             \* [kind, input]: what is encoded
    buf,             \* the bytes produced so far
    stage,           \* "new", "encoded", "wrapped", "read", "done"
    result           \* what the decoding side returned

hw == <<svc, ctx_ok, plugged, card, hwFuel>>
cache == <<reader_connected, card_present, last_data_read>>
thread == <<pc, reader_names, reader_states, idx>>
chan == <<cmdq, nextCmd, cmdFuel>>
svars == <<hw, cache, thread, chan, emitted, h>>
bvars == <<produced, bridge_q, evLog, fwd, wsLog, clients>>
tvars == <<tag, tagEv, tagOp, apdus, readRes>>
cvars == <<job, buf, stage, result>>
xvars == <<tvars, cvars>>
vars == <<svars, bvars, xvars>>

(***************************************************************************)
(* OutgoingMessage (types.rs).  Every event is [type, arg] with a string   *)
(* argument.                                                               *)
(***************************************************************************)
BoolStr(b) == IF b THEN "true" ELSE "false"
READER_STATUS(b) == [type |-> "READER_STATUS", arg |-> BoolStr(b)]
CARD_STATUS(b) == [type |-> "CARD_STATUS", arg |-> BoolStr(b)]
DATA_READ_SUCCESS(t) == [type |-> "DATA_READ_SUCCESS", arg |-> t]
DATA_READ_ERROR(e) == [type |-> "DATA_READ_ERROR", arg |-> e]
DATA_WRITE_SUCCESS == [type |-> "DATA_WRITE_SUCCESS", arg |-> "Data Written Successfully!"]
DATA_WRITE_ERROR(e) == [type |-> "DATA_WRITE_ERROR", arg |-> e]
READER_ERROR == [type |-> "READER_ERROR", arg |-> "NFC Service Unavailable"]

HasType(evs, t) == \E k \in DOMAIN evs : evs[k].type = t
Inc(n) == IF n < MaxCount THEN n + 1 ELSE MaxCount

(***************************************************************************)
(* pcsc::State as the set of flags the resource manager reports, and the   *)
(* reader count the PnP pseudo-reader carries in the state's high word.    *)
(***************************************************************************)
UNAWARE == [flags |-> {}, cnt |-> 0]
NewReaderState(name) == [name |-> name, cur |-> UNAWARE, ev |-> UNAWARE]
Intersects(st, flag) == flag \in st.flags
SyncCurrentState(e) == [e EXCEPT !.cur = e.ev]

NoCard == [present |-> FALSE, data |-> Blank]

\* what the resource manager sees on reader r
ActualFlags(r) ==
    IF r \notin plugged THEN {"UNKNOWN"}
    ELSE IF card[r].present THEN {"PRESENT"} ELSE {"EMPTY"}

\* the event state SCardGetStatusChange reports for one entry
EventState(e) ==
    IF e.name = PNP_NOTIFICATION
    THEN [flags |-> IF Cardinality(plugged) # e.cur.cnt THEN {"CHANGED"} ELSE {},
          cnt |-> Cardinality(plugged)]
    ELSE [flags |-> ActualFlags(e.name) \cup
                    (IF e.cur.flags \ {"CHANGED"} # ActualFlags(e.name)
                     THEN {"CHANGED"} ELSE {}),
          cnt |-> 0]

Reported(rs) == [k \in DOMAIN rs |-> [rs[k] EXCEPT !.ev = EventState(rs[k])]]
AnyChanged(rs) == \E k \in DOMAIN rs : Intersects(rs[k].ev, "CHANGED")

RECURSIVE SortedSeq(_)
SortedSeq(S) ==
    IF S = {} THEN <<>>
    ELSE LET m == CHOOSE x \in S : \A y \in S : x <= y
         IN <<m>> \o SortedSeq(S \ {m})

(***************************************************************************)
(* History record.  Per reader, for the card insertion currently (or last) *)
(* on it: ct / cf / cs count the CARD_STATUS{true}, CARD_STATUS{false} and *)
(* DATA_READ_SUCCESS events the service emitted for it, dec says that a    *)
(* read of it decoded a text.                                              *)
(***************************************************************************)
HInit ==
    [ct |-> [r \in Readers |-> 0],
     cf |-> [r \in Readers |-> 0],
     cs |-> [r \in Readers |-> 0],
     dec |-> [r \in Readers |-> FALSE],
     sessLog |-> <<>>,        \* READER_STATUS values of scan and PnP, this session
     clientReader |-> FALSE,  \* last reader state reported by an event
     clientCard |-> FALSE,    \* last card state reported by an event
     broke |-> FALSE,         \* the inner loop has exited at least once
     recovered |-> FALSE,     \* the inner loop was re-entered after a break
     connBefore |-> FALSE,    \* a reader was reported connected when the loop broke
     outageFailed |-> FALSE,  \* an establish attempt failed since the loop broke
     outageErrs |-> 0,        \* READER_ERROR events since the loop broke
     lastDeq |-> 0,           \* id of the last command dequeued
     lastResp |-> 0]          \* id of the last command answered by an event

LogAppend(log, b) ==
    IF Len(log) < MaxLog THEN Append(log, b) ELSE Append(Tail(log), b)

\* the client's view after the events evs (in order)
RECURSIVE ViewAfter(_, _, _)
ViewAfter(evs, field, v) ==
    IF evs = <<>> THEN v
    ELSE LET e == Head(evs)
             nv == IF field = "reader" /\ e.type = "READER_STATUS" THEN e.arg = "true"
                   ELSE IF field = "reader" /\ e.type = "READER_ERROR" THEN FALSE
                   ELSE IF field = "card" /\ e.type = "CARD_STATUS" THEN e.arg = "true"
                   ELSE v
         IN ViewAfter(Tail(evs), field, nv)

\* history after the reader thread sent evs
Observe(hh, evs) ==
    [hh EXCEPT !.clientReader = ViewAfter(evs, "reader", hh.clientReader),
               !.clientCard = ViewAfter(evs, "card", hh.clientCard)]

\* no tag on the reader
NoTag == [family |-> "none", mem |-> <<>>, auth |-> <<>>]

\* a connection that has not been accepted yet
NoClient == [st |-> "off", pos |-> 1, got |-> <<>>]

\* the state after construction (run's first lines, main's channels), for
\* budgets of hardware events and commands
InitWith(hwEvents, cmds) ==
    /\ svc \in BOOLEAN
    /\ ctx_ok = FALSE
    /\ plugged \in SUBSET Readers
    /\ card = [r \in Readers |-> NoCard]
    /\ hwFuel = hwEvents
    /\ cmdFuel = cmds
    /\ pc = "establish"
    /\ reader_connected = FALSE
    /\ card_present = FALSE
    /\ last_data_read = None
    /\ reader_names = <<>>
    /\ reader_states = <<NewReaderState(PNP_NOTIFICATION)>>
    /\ idx = 1
    /\ cmdq = <<>>
    /\ nextCmd = 0
    /\ emitted = <<>>
    /\ h = HInit
    /\ produced = 0
    /\ bridge_q = <<>>
    /\ evLog = <<>>
    /\ fwd = [alive |-> TRUE, pos |-> 1]
    /\ wsLog = <<>>
    /\ clients = [c \in Clients |-> NoClient]

NoResult == [ok |-> FALSE, val |-> "none"]

\* nothing is being encoded
IdleCodec == job = [kind |-> "none", input |-> <<>>] /\ buf = <<>> /\ stage = "new" /\ result = NoResult

NoOp == [name |-> "none", data |-> <<>>]
IdleTag ==
    /\ tag = NoTag /\ tagEv = <<>>
    /\ tagOp = NoOp /\ apdus = <<>> /\ readRes = NoResult


Init == InitWith(MaxHw, 0) /\ IdleTag /\ IdleCodec
InitCmd == InitWith(MaxHwCmd, MaxCmds) /\ IdleTag /\ IdleCodec

(***************************************************************************)
(* Environment: hardware and resource manager.                             *)
(***************************************************************************)
PlugReader(r) ==
    /\ UNCHANGED <<bvars, xvars>>
    /\ hwFuel > 0
    /\ r \notin plugged
    /\ plugged' = plugged \cup {r}
    /\ hwFuel' = hwFuel - 1
    /\ UNCHANGED <<svc, ctx_ok, card, cache, thread, chan, emitted, h>>

UnplugReader(r) ==
    /\ UNCHANGED <<bvars, xvars>>
    /\ hwFuel > 0
    /\ r \in plugged
    /\ plugged' = plugged \ {r}
    /\ hwFuel' = hwFuel - 1
    /\ UNCHANGED <<svc, ctx_ok, card, cache, thread, chan, emitted, h>>

InsertCard(r, d) ==
    /\ UNCHANGED <<bvars, xvars>>
    /\ hwFuel > 0
    /\ ~card[r].present
    /\ card' = [card EXCEPT ![r] = [present |-> TRUE, data |-> d]]
    /\ hwFuel' = hwFuel - 1
    /\ h' = [h EXCEPT !.ct[r] = 0, !.cf[r] = 0, !.cs[r] = 0, !.dec[r] = FALSE]
    /\ UNCHANGED <<svc, ctx_ok, plugged, cache, thread, chan, emitted>>

RemoveCard(r) ==
    /\ UNCHANGED <<bvars, xvars>>
    /\ hwFuel > 0
    /\ card[r].present
    /\ card' = [card EXCEPT ![r].present = FALSE]
    /\ hwFuel' = hwFuel - 1
    /\ UNCHANGED <<svc, ctx_ok, plugged, cache, thread, chan, emitted, h>>

StopService ==
    /\ UNCHANGED <<bvars, xvars>>
    /\ hwFuel > 0
    /\ svc
    /\ svc' = FALSE
    /\ ctx_ok' = FALSE
    /\ hwFuel' = hwFuel - 1
    /\ UNCHANGED <<plugged, card, cache, thread, chan, emitted, h>>

StartService ==
    /\ UNCHANGED <<bvars, xvars>>
    /\ hwFuel > 0
    /\ ~svc
    /\ svc' = TRUE
    /\ hwFuel' = hwFuel - 1
    /\ UNCHANGED <<ctx_ok, plugged, card, cache, thread, chan, emitted, h>>

(***************************************************************************)
(* WebSocket connections (ws.rs : handle_connection): a parsed inbound     *)
(* message becomes one command on the command channel.  The payloads of a  *)
(* WRITE_DATA is any string: a JSON array whose first record carries a     *)
(* text of Texts, or a string that is not such an array ("malformed").     *)
(***************************************************************************)
Payloads == Texts \cup {"malformed"}
CheckReaderStatus == [kind |-> "CheckReaderStatus", payloads |-> ""]
Write(p) == [kind |-> "Write", payloads |-> p]
Commands == {CheckReaderStatus} \cup {Write(p) : p \in Payloads}

Send(q, c) == Append(q, c)

Enqueue(c) ==
    /\ UNCHANGED <<bvars, xvars>>
    /\ cmdFuel > 0
    /\ cmdFuel' = cmdFuel - 1
    /\ nextCmd' = nextCmd + 1
    /\ cmdq' = Send(cmdq, [id |-> nextCmd + 1, kind |-> c.kind, payloads |-> c.payloads])
    /\ UNCHANGED <<hw, cache, thread, emitted, h>>

(***************************************************************************)
(* Reader thread: nfc_service.rs : run.                                    *)
(***************************************************************************)

\* update_reader_list whose Err arm clears the names and leaves the states
UpdateReaderListNoTruncate(rs) ==
    LET names == IF ctx_ok THEN SortedSeq(plugged) ELSE <<>>
    IN [names |-> names,
        states |-> IF ctx_ok
                   THEN SubSeq(rs, 1, 1)
                        \o [k \in 1..Len(names) |-> NewReaderState(names[k])]
                   ELSE rs]

\* update_reader_list: list_readers fails on a dead context; both arms keep
\* the PnP entry and rebuild entries 1..n from the names
UpdateReaderList(rs) ==
    LET names == IF ctx_ok THEN SortedSeq(plugged) ELSE <<>>
    IN [names |-> names,
        states |-> SubSeq(rs, 1, 1) \o [k \in 1..Len(names) |-> NewReaderState(names[k])]]

\* Context::establish; on failure READER_ERROR only if the cache says connected
EstablishFailEvents(connected) ==
    IF connected THEN <<READER_ERROR>> ELSE <<>>

Establish ==
    /\ UNCHANGED <<bvars, xvars>>
    /\ pc = "establish"
    /\ IF svc
       THEN /\ ctx_ok' = TRUE
            /\ pc' = "scan"
            /\ emitted' = <<>>
            /\ h' = [h EXCEPT !.sessLog = <<>>]
            /\ UNCHANGED reader_connected
       ELSE /\ emitted' = EstablishFailEvents(reader_connected)
            /\ reader_connected' = FALSE
            /\ h' = [Observe(h, emitted') EXCEPT
                        !.outageFailed = TRUE,
                        !.outageErrs = IF emitted' # <<>> THEN Inc(h.outageErrs)
                                       ELSE h.outageErrs]
            /\ UNCHANGED <<ctx_ok, pc>>
    /\ reader_names' = <<>>
    /\ reader_states' = <<NewReaderState(PNP_NOTIFICATION)>>
    /\ UNCHANGED <<svc, plugged, card, hwFuel, card_present, last_data_read,
                   idx, chan>>

\* the events of the initial scan
InitialScanEvents(is_connected) ==
    IF is_connected THEN <<READER_STATUS(TRUE)>> ELSE <<>>

InitialScan ==
    /\ UNCHANGED <<bvars, xvars>>
    /\ pc = "scan"
    /\ LET u == UpdateReaderList(reader_states)
           is_connected == u.names # <<>>
       IN /\ reader_names' = u.names
          /\ reader_states' = u.states
          /\ reader_connected' = is_connected
          /\ emitted' = InitialScanEvents(is_connected)
          /\ h' = [Observe(h, emitted') EXCEPT
                      !.sessLog = IF emitted' # <<>> THEN <<TRUE>> ELSE <<>>,
                      !.recovered = h.broke]
    /\ pc' = "wait"
    /\ UNCHANGED <<hw, card_present, last_data_read, idx, chan>>

\* ctx.get_status_change: ServiceStopped / NoService on a dead context breaks
\* the inner loop; otherwise the event states are reported (Ok when one
\* changed, Timeout when none did), or another error leaves them as they were
GetStatusChange ==
    /\ UNCHANGED <<bvars, xvars>>
    /\ pc = "wait"
    /\ IF ~ctx_ok
       THEN /\ pc' = "restart"
            /\ UNCHANGED reader_states
       ELSE /\ pc' = "commands"
            /\ \E other_error \in BOOLEAN :
                 reader_states' = IF other_error THEN reader_states
                                  ELSE Reported(reader_states)
    /\ emitted' = <<>>
    /\ UNCHANGED <<hw, cache, reader_names, idx, chan, h>>

\* lines 199-205: the inner loop broke
Restart ==
    /\ UNCHANGED <<bvars, xvars>>
    /\ pc = "restart"
    /\ reader_connected' = FALSE
    /\ card_present' = FALSE
    /\ pc' = "establish"
    /\ reader_names' = <<>>
    /\ reader_states' = <<NewReaderState(PNP_NOTIFICATION)>>
    /\ emitted' = <<>>
    /\ h' = [h EXCEPT !.broke = TRUE,
                      !.connBefore = reader_connected,
                      !.recovered = FALSE,
                      !.outageFailed = FALSE,
                      !.outageErrs = 0]
    /\ UNCHANGED <<hw, last_data_read, idx, chan>>

\* rx.try_recv(): the oldest command of the channel
TryRecv(q) == [cmd |-> Head(q), rest |-> Tail(q)]

\* ctx.connect(name, Shared, ANY) can succeed only on a card the resource
\* manager sees; it may fail even then
Connectable(name) == ctx_ok /\ name \in plugged /\ card[name].present

\* write_nfc_data_cli, lines 506-558: its result, the reader whose card was
\* written (0: none) and the content the card is left with
WriteOutcomes(names, text) ==
    IF names = <<>>
    THEN {[ok |-> FALSE, err |-> "Error: No NFC readers found.", r |-> 0, data |-> Blank]}
    ELSE {[ok |-> FALSE, err |-> "No card found on any available reader.", r |-> 0,
           data |-> Blank]}
         \cup UNION {
            {[ok |-> TRUE, err |-> "", r |-> names[k], data |-> text],
             [ok |-> FALSE, err |-> "Failed to get card status", r |-> names[k],
              data |-> card[names[k]].data],
             [ok |-> FALSE, err |-> "Write failed", r |-> names[k],
              data |-> card[names[k]].data],
             [ok |-> FALSE, err |-> "Write failed", r |-> names[k], data |-> Blank]}
            : k \in {j \in 1..Len(names) : Connectable(names[j])}}

\* a write handler that reads the card back after a successful write
WriteEventsWithRead(o) ==
    IF o.ok THEN <<DATA_WRITE_SUCCESS, DATA_READ_SUCCESS(o.data)>>
    ELSE <<DATA_WRITE_ERROR(o.err)>>

\* handle_write_command_v2, lines 361-388
WriteEvents(o) ==
    IF o.ok THEN <<DATA_WRITE_SUCCESS>> ELSE <<DATA_WRITE_ERROR(o.err)>>

\* step 3 of the inner loop, one command per step; the loop ends on an empty channel
ProcessCommand ==
    /\ UNCHANGED <<bvars, xvars>>
    /\ pc = "commands"
    /\ IF cmdq = <<>>
       THEN /\ pc' = "pnp"
            /\ emitted' = <<>>
            /\ UNCHANGED <<cmdq, card, h>>
       ELSE LET got == TryRecv(cmdq)
                cmd == got.cmd
            IN /\ cmdq' = got.rest
               /\ IF cmd.kind = "CheckReaderStatus"
                  THEN /\ emitted' = <<READER_STATUS(reader_connected)>>
                       /\ pc' = pc
                       /\ card' = card
                       /\ h' = [Observe(h, emitted') EXCEPT !.lastDeq = cmd.id,
                                                            !.lastResp = cmd.id]
                  ELSE IF cmd.payloads = "malformed"
                  THEN \* serde_json::from_str(&payloads).unwrap() panics
                       /\ emitted' = <<>>
                       /\ pc' = "dead"
                       /\ card' = card
                       /\ h' = [h EXCEPT !.lastDeq = cmd.id]
                  ELSE \E o \in WriteOutcomes(reader_names, cmd.payloads) :
                       /\ emitted' = WriteEvents(o)
                       /\ pc' = pc
                       /\ card' = IF o.r = 0 THEN card
                                  ELSE [card EXCEPT ![o.r].data = o.data]
                       /\ h' = [h EXCEPT !.lastDeq = cmd.id, !.lastResp = cmd.id]
    /\ UNCHANGED <<svc, ctx_ok, plugged, hwFuel, cache, reader_names,
                   reader_states, idx, nextCmd, cmdFuel>>

\* a PnP step that reports every re-enumeration
PnPAlwaysEmit(is_connected, cached) == TRUE

\* DEDUPLICATION of step 4: only send if status actually changed
PnPShouldEmit(is_connected, cached) == is_connected # cached

\* step 4 of the inner loop, lines 127-151
ProcessPnP ==
    /\ UNCHANGED <<bvars, xvars>>
    /\ pc = "pnp"
    /\ IF reader_states # <<>> /\ Intersects(reader_states[1].ev, "CHANGED")
       THEN LET synced == [reader_states EXCEPT ![1] = SyncCurrentState(reader_states[1])]
                u == UpdateReaderList(synced)
                is_connected == u.names # <<>>
            IN /\ reader_names' = u.names
               /\ reader_states' = u.states
               /\ IF PnPShouldEmit(is_connected, reader_connected)
                  THEN /\ reader_connected' = is_connected
                       /\ emitted' = <<READER_STATUS(is_connected)>>
                       /\ h' = [Observe(h, emitted') EXCEPT
                                   !.sessLog = LogAppend(h.sessLog, is_connected)]
                  ELSE /\ emitted' = <<>>
                       /\ UNCHANGED <<reader_connected, h>>
       ELSE /\ emitted' = <<>>
            /\ UNCHANGED <<reader_names, reader_states, reader_connected, h>>
    /\ pc' = IF Len(reader_states') > 1 THEN "cards" ELSE "wait"
    /\ idx' = 1
    /\ UNCHANGED <<hw, card_present, last_data_read, chan>>

\* what connect + read + decode_ndef_text can yield for the card on name
InsertionOutcomes(name) ==
    {"connect_err"} \cup
    (IF Connectable(name) THEN {"read_err", card[name].data} ELSE {})

\* DEDUPLICATION of handle_card_insertion: only send data if it changed
ReadShouldEmit(text, last) == last # text

\* handle_card_insertion, lines 236-292: the events sent for outcome o
InsertionEvents(o, last) ==
    <<CARD_STATUS(TRUE)>> \o
    (IF o = "connect_err" THEN <<>>
     ELSE IF o = "read_err" THEN <<DATA_READ_ERROR("Read Failed")>>
     ELSE IF o = Blank THEN <<DATA_READ_ERROR("Empty/Non-NDEF")>>
     ELSE IF ReadShouldEmit(o, last) THEN <<DATA_READ_SUCCESS(o)>> ELSE <<>>)

\* the value of cache.last_data_read after handle_card_insertion
InsertionLast(o, last) ==
    IF o \in Texts /\ ReadShouldEmit(o, last) THEN o ELSE last

\* step 5 of the inner loop, lines 153-196: one index i of the range
\* 1..reader_states.len() per step
CardEvent ==
    /\ UNCHANGED <<bvars, xvars>>
    /\ pc = "cards"
    /\ IF idx > Len(reader_names)
       THEN \* reader_names[i - 1] out of bounds: the thread panics
            /\ pc' = "dead"
            /\ emitted' = <<>>
            /\ UNCHANGED <<reader_states, idx, cache, h>>
       ELSE LET name == reader_names[idx]
                rs == reader_states[idx + 1]
                changed == Intersects(rs.ev, "CHANGED")
                is_present == Intersects(rs.ev, "PRESENT")
                was_present == Intersects(rs.cur, "PRESENT")
                last == idx + 1 >= Len(reader_states)
            IN /\ pc' = IF last THEN "wait" ELSE "cards"
               /\ idx' = IF last THEN 1 ELSE idx + 1
               /\ reader_states' = IF changed
                                   THEN [reader_states EXCEPT ![idx + 1] = SyncCurrentState(rs)]
                                   ELSE reader_states
               /\ UNCHANGED reader_connected
               /\ IF changed /\ is_present /\ ~was_present /\ ~card_present
                  THEN \* CASE A: card inserted
                       \E o \in InsertionOutcomes(name) :
                         /\ card_present' = TRUE
                         /\ emitted' = InsertionEvents(o, last_data_read)
                         /\ last_data_read' = InsertionLast(o, last_data_read)
                         /\ h' = [Observe(h, emitted') EXCEPT
                                     !.ct[name] = Inc(h.ct[name]),
                                     !.cs[name] = IF HasType(emitted', "DATA_READ_SUCCESS")
                                                  THEN Inc(h.cs[name]) ELSE h.cs[name],
                                     !.dec[name] = h.dec[name] \/ o \in Texts]
                  ELSE IF changed /\ ~is_present /\ was_present /\ card_present
                  THEN \* CASE B: card removed
                       /\ card_present' = FALSE
                       /\ last_data_read' = None
                       /\ emitted' = <<CARD_STATUS(FALSE)>>
                       /\ h' = [Observe(h, emitted') EXCEPT !.cf[name] = Inc(h.cf[name])]
                  ELSE /\ emitted' = <<>>
                       /\ UNCHANGED <<card_present, last_data_read, h>>
    /\ UNCHANGED <<hw, reader_names, chan>>

Hardware ==
    \/ \E r \in Readers : PlugReader(r)
    \/ \E r \in Readers : UnplugReader(r)
    \/ \E r \in Readers, d \in Contents : InsertCard(r, d)
    \/ \E r \in Readers : RemoveCard(r)

Manager ==
    \/ StopService
    \/ StartService

ReaderThread ==
    \/ Establish
    \/ InitialScan
    \/ GetStatusChange
    \/ ProcessCommand
    \/ ProcessPnP
    \/ CardEvent
    \/ Restart

Next == Hardware \/ Manager \/ ReaderThread

Spec == Init /\ [][Next]_vars

\* get_status_change returned without error: the event states are those
\* of the hardware
StatusReported ==
    GetStatusChange /\ ctx_ok /\ reader_states' = Reported(reader_states)

\* the reader thread keeps running, and get_status_change does not fail
\* forever on a live context
InitLive == InitWith(MaxHwLive, 0) /\ IdleTag /\ IdleCodec
SpecLive ==
    InitLive /\ [][Next]_vars /\ WF_vars(ReaderThread) /\ SF_vars(StatusReported)

NextCmd == Next \/ \E c \in Commands : Enqueue(c)

SpecCmd == InitCmd /\ [][NextCmd]_vars

(***************************************************************************)
(* Event bridge.  The reader thread sends on bridge_tx; the bridge loop     *)
(* (main.rs) moves each value to the event broadcast; the forwarder task    *)
(* (ws.rs : start_server) moves it to the WebSocket broadcast; every        *)
(* connection's send task (ws.rs : handle_connection) writes what it        *)
(* receives to its socket.  A tokio broadcast channel stores a sent value   *)
(* only while a receiver exists and keeps the newest values up to its       *)
(* capacity; a receiver that fell behind gets Err(Lagged) from recv, which  *)
(* ends a `while let Ok(msg) = rx.recv().await` loop.                       *)
(***************************************************************************)

\* broadcast::Sender::send: stored when a receiver exists, else Err (ignored)
BroadcastSend(log, has_receiver, msg) ==
    IF has_receiver THEN Append(log, msg) ELSE log

\* broadcast::Receiver::recv would return Err(Lagged): the value at pos has
\* been overwritten
Lagged(log, pos, cap) == Len(log) - pos >= cap

\* the receivers of ws_tx: send tasks that have not ended
HasReceiver == \E c \in Clients : clients[c].st \in {"open", "gone"}

\* a bridge loop that takes the newest value of the channel
BridgeRecvNewest(q) == [msg |-> q[Len(q)], rest |-> SubSeq(q, 1, Len(q) - 1)]

\* bridge_rx.recv(): the oldest value of the channel
BridgeRecv(q) == [msg |-> Head(q), rest |-> Tail(q)]

\* the reader thread sends an event (tx.send in nfc_service.rs)
Produce ==
    /\ produced < MaxEvents
    /\ produced' = produced + 1
    /\ bridge_q' = Append(bridge_q, produced + 1)
    /\ UNCHANGED <<evLog, fwd, wsLog, clients>>
    /\ UNCHANGED <<svars, xvars>>

\* main.rs, lines 42-44
BridgeLoop ==
    /\ bridge_q # <<>>
    /\ LET r == BridgeRecv(bridge_q)
       IN /\ bridge_q' = r.rest
          /\ evLog' = BroadcastSend(evLog, fwd.alive, r.msg)
    /\ UNCHANGED <<produced, fwd, wsLog, clients>>
    /\ UNCHANGED <<svars, xvars>>

\* ws.rs, lines 19-23
Forward ==
    /\ fwd.alive
    /\ fwd.pos <= Len(evLog)
    /\ IF Lagged(evLog, fwd.pos, EvCap)
       THEN /\ fwd' = [fwd EXCEPT !.alive = FALSE]
            /\ wsLog' = wsLog
       ELSE /\ fwd' = [fwd EXCEPT !.pos = fwd.pos + 1]
            /\ wsLog' = BroadcastSend(wsLog, HasReceiver, evLog[fwd.pos])
    /\ UNCHANGED <<produced, bridge_q, evLog, clients>>
    /\ UNCHANGED <<svars, xvars>>

\* ws.rs, lines 49-50: a connection is accepted and subscribes at the tail
ClientConnect(c) ==
    /\ clients[c].st = "off"
    /\ clients' = [clients EXCEPT ![c] =
                      [st |-> "open", pos |-> Len(wsLog) + 1, got |-> <<>>]]
    /\ UNCHANGED <<produced, bridge_q, evLog, fwd, wsLog>>
    /\ UNCHANGED <<svars, xvars>>

\* the peer closes the socket; the send task notices at its next send
ClientClose(c) ==
    /\ clients[c].st = "open"
    /\ clients' = [clients EXCEPT ![c].st = "gone"]
    /\ UNCHANGED <<produced, bridge_q, evLog, fwd, wsLog>>
    /\ UNCHANGED <<svars, xvars>>

\* ws.rs, lines 53-64: one iteration of the send task
ClientRecv(c) ==
    /\ clients[c].st \in {"open", "gone"}
    /\ clients[c].pos <= Len(wsLog)
    /\ clients' = [clients EXCEPT ![c] =
                      IF Lagged(wsLog, clients[c].pos, WsCap)
                      THEN [@ EXCEPT !.st = "lagged"]
                      ELSE IF clients[c].st = "gone"
                      THEN [@ EXCEPT !.st = "done"]
                      ELSE [@ EXCEPT !.pos = @ + 1,
                                     !.got = Append(@, wsLog[clients[c].pos])]]
    /\ UNCHANGED <<produced, bridge_q, evLog, fwd, wsLog>>
    /\ UNCHANGED <<svars, xvars>>

NextBridge ==
    \/ Produce
    \/ BridgeLoop
    \/ Forward
    \/ \E c \in Clients : ClientConnect(c)
    \/ \E c \in Clients : ClientClose(c)
    \/ \E c \in Clients : ClientRecv(c)

InitBridge == InitWith(0, 0) /\ svc /\ plugged = Readers /\ IdleTag /\ IdleCodec

SpecBridge == InitBridge /\ [][NextBridge]_vars

(***************************************************************************)
(* NDEF codec (ndef.rs).  A byte string is a sequence of numbers 0..255;   *)
(* the code's 0-based index k is the sequence index k + 1.                 *)
(***************************************************************************)
Slice(b, from, to) == SubSeq(b, from + 1, to)
U8(n) == n % 256

RECURSIVE Concat(_)
Concat(seqs) == IF seqs = <<>> THEN <<>> ELSE Head(seqs) \o Concat(Tail(seqs))

\* buffer.iter().position(|&b| b == x), 0-based; -1 stands for Option::None
Position(b, x) ==
    IF \E k \in DOMAIN b : b[k] = x
    THEN (CHOOSE k \in DOMAIN b : b[k] = x /\ \A j \in 1..(k - 1) : b[j] # x) - 1
    ELSE -1

\* str::from_utf8(bytes).is_ok(): the well-formed UTF-8 byte sequences.
\* Every byte that is not a continuation byte starts a character, has the
\* continuation bytes its value asks for, and is followed by the end or by
\* the start of the next character.
Utf8Valid(b) ==
    LET n == Len(b)
        Cont(k) == k \in 1..n /\ b[k] \in 128..191
        Need(k) == IF b[k] < 128 THEN 0
                   ELSE IF b[k] \in 194..223 THEN 1
                   ELSE IF b[k] \in 224..239 THEN 2
                   ELSE IF b[k] \in 240..244 THEN 3
                   ELSE -1
        WellFormed(k) ==
            /\ Need(k) >= 0
            /\ \A j \in 1..Need(k) : Cont(k + j)
            /\ ~Cont(k + Need(k) + 1)
            /\ (b[k] = 224 => b[k + 1] >= 160)
            /\ (b[k] = 237 => b[k + 1] <= 159)
            /\ (b[k] = 240 => b[k + 1] >= 144)
            /\ (b[k] = 244 => b[k + 1] <= 143)
    IN \A k \in 1..n : (k = 1 \/ ~Cont(k)) => (~Cont(k) /\ WellFormed(k))

\* the bytes of "en", "T", "U" and "android.com:pkg"
LangEn == <<101, 110>>
TypeT == <<84>>
TypeU == <<85>>
TypeApp == <<97, 110, 100, 114, 111, 105, 100, 46, 99, 111, 109, 58, 112, 107, 103>>

\* create_text_record_payload
CreateTextRecordPayload(text) == <<U8(Len(LangEn))>> \o LangEn \o text

\* encode_ndef_message: header 0xD1, type length, payload length as u8
EncodeNdefMessage(text) ==
    LET payload == CreateTextRecordPayload(text)
    IN <<209, U8(Len(TypeT)), U8(Len(payload))>> \o TypeT \o payload

\* encode_single_record_ndef
EncodeSingleRecordNdef(content, data_type, mb, me) ==
    LET tnf == IF data_type = "APP" THEN 4 ELSE 1
        type_string == IF data_type = "TEXT" THEN TypeT
                       ELSE IF data_type = "URL" THEN TypeU ELSE TypeApp
        payload == IF data_type = "TEXT" THEN <<U8(Len(LangEn))>> \o LangEn \o content
                   ELSE IF data_type = "URL" THEN <<0>> \o content
                   ELSE content
        header == tnf + (IF mb THEN 128 ELSE 0) + (IF me THEN 64 ELSE 0) + 16
    IN <<header, U8(Len(type_string)), U8(Len(payload))>> \o type_string \o payload

\* wrap_in_tlv
WrapInTlv(ndef_bytes) ==
    <<3>> \o (IF Len(ndef_bytes) < 255 THEN <<U8(Len(ndef_bytes))>> ELSE <<255>>)
          \o ndef_bytes \o <<254>>

\* encode_multi_record_ndef with the ME flag on every record
EncodeMultiRecordNdefAllEnd(payloads) ==
    WrapInTlv(Concat([i \in DOMAIN payloads |->
        EncodeSingleRecordNdef(payloads[i].content, payloads[i].data_type,
                               i = 1, TRUE)]))

\* encode_multi_record_ndef; payloads is a sequence of [data_type, content]
EncodeMultiRecordNdef(payloads) ==
    WrapInTlv(Concat([i \in DOMAIN payloads |->
        EncodeSingleRecordNdef(payloads[i].content, payloads[i].data_type,
                               i = 1, i = Len(payloads))]))

Ok(v) == [ok |-> TRUE, val |-> v]
Err(e) == [ok |-> FALSE, val |-> e]

\* decode_ndef_text
DecodeNdefText(buffer) ==
    LET start == Position(buffer, 3)
    IN IF start = -1 THEN Err("No NDEF TLV found")
       ELSE IF start + 1 >= Len(buffer) THEN Err("Invalid buffer length")
       ELSE LET len == buffer[start + 2]
                start_data == start + 2
            IN IF start_data + len > Len(buffer) THEN Err("Incomplete data")
               ELSE LET ndef_msg == Slice(buffer, start_data, start_data + len)
                    IN IF ndef_msg = <<>> THEN Err("Empty NDEF")
                       ELSE IF Len(ndef_msg) < 3 THEN Err("Invalid NDEF Header")
                       ELSE LET type_len == ndef_msg[2]
                                payload_len == ndef_msg[3]
                                payload_start == 3 + type_len
                            IN IF payload_start + payload_len > Len(ndef_msg)
                               THEN Err("Invalid payload structure")
                               ELSE LET payload == Slice(ndef_msg, payload_start,
                                                         payload_start + payload_len)
                                    IN IF payload = <<>> THEN Err("Empty Payload")
                                       ELSE LET lang_len == payload[1] % 64
                                                text_start == 1 + lang_len
                                            IN IF text_start > Len(payload)
                                               THEN Err("Invalid Text Payload")
                                               ELSE LET text_bytes == Slice(payload, text_start,
                                                                            Len(payload))
                                                    IN IF Utf8Valid(text_bytes)
                                                       THEN Ok(text_bytes)
                                                       ELSE Err("UTF-8 Decode Error")

\* an index or a slice out of bounds: the thread panics, nothing is returned
Panicked == [ok |-> FALSE, val |-> "panic"]

\* the Text stripping of parse_ndef_records, lines 253-266
StripText(tnf, record_type, payload) ==
    IF tnf = 1 /\ record_type = TypeT /\ payload # <<>>
    THEN LET header_size == 1 + (payload[1] % 64)
         IN IF Len(payload) > header_size
            THEN Slice(payload, header_size, Len(payload))
            ELSE payload
    ELSE payload

\* the while loop of parse_ndef_records from cursor on
RECURSIVE ParseFrom(_, _, _)
ParseFrom(data, cursor, records) ==
    IF cursor >= Len(data) THEN Ok(records)
    ELSE
    LET n == Len(data)
        header == data[cursor + 1]
        tnf == header % 8
        is_short_record == (header \div 16) % 2 = 1
        has_id == (header \div 8) % 2 = 1
        is_me == (header \div 64) % 2 = 1
        c1 == cursor + 1
    IN IF c1 >= n THEN Panicked
       ELSE
       LET type_len == data[c1 + 1]
           c2 == c1 + 1
           len_bytes == IF is_short_record THEN 1 ELSE 4
       IN IF c2 + len_bytes > n THEN Panicked
          ELSE
          LET payload_len == IF is_short_record THEN data[c2 + 1]
                             ELSE data[c2 + 1] * 16777216 + data[c2 + 2] * 65536
                                  + data[c2 + 3] * 256 + data[c2 + 4]
              c3 == c2 + len_bytes
          IN IF has_id /\ c3 >= n THEN Panicked
             ELSE
             LET id_len == IF has_id THEN data[c3 + 1] ELSE 0
                 c4 == IF has_id THEN c3 + 1 ELSE c3
                 c5 == c4 + type_len
                 c6 == c5 + id_len
                 c7 == c6 + payload_len
             IN IF c7 > n THEN Panicked
                ELSE
                LET record_type == Slice(data, c4, c5)
                    id == IF has_id THEN <<Slice(data, c5, c6)>> ELSE <<>>
                    payload == Slice(data, c6, c7)
                    rec == [tnf |-> tnf, record_type |-> record_type,
                            payload |-> StripText(tnf, record_type, payload), id |-> id]
                IN IF is_me THEN Ok(Append(records, rec))
                   ELSE ParseFrom(data, c7, Append(records, rec))

\* parse_ndef_records
ParseNdefRecords(data) == ParseFrom(data, 0, <<>>)

(***************************************************************************)
(* Tags (cards.rs, apdu.rs).  A tag is [family, mem, auth]: mem is the     *)
(* user memory as a byte string (NTAG: pages 4.., 4 bytes each; MIFARE:    *)
(* the 45 data blocks of sectors 1..15, 16 bytes each), auth[sector] says  *)
(* which key type a key of COMMON_KEYS opens the sector with ("A", "B":    *)
(* key B only, "none").                                                    *)
(***************************************************************************)
Zeros(n) == [k \in 1..n |-> 0]

\* one command sent to the reader by apdu.rs: load_key (arg: the key),
\* authenticate (arg: key type 0x60 or 0x61), read_binary and update_binary
\* (arg: length); ok: the reader answered 90 00
Apdu(op, block, arg, ok) == [op |-> op, block |-> block, arg |-> arg, ok |-> ok]

\* COMMON_KEYS, in dictionary order
COMMON_KEYS ==
    <<"FFFFFFFFFFFF", "A0A1A2A3A4A5", "D3F7D3F7D3F7", "000000000000",
      "B0B1B2B3B4B5", "4D3A99C351DD", "1A982C7E459A", "AABBCCDDEEFF">>

\* authenticate with key type A
KEY_A == 96
\* authenticate with key type B
KEY_B == 97

\* get_mifare_data_blocks
MifareDataBlocks ==
    [k \in 1..45 |-> (((k - 1) \div 3) + 1) * 4 + ((k - 1) % 3)]

MifareBytes == 16 * Len(MifareDataBlocks)

\* where data block `block` starts in mem (0-based)
BlockOffset(block) == (((block \div 4) - 1) * 3 + (block % 4)) * 16

\* the key loop of read_mifare (with_b) and write_mifare (key A only) at
\* the first block of a sector, from dictionary entry k on: [ok, apdus].
\* The reader stores every key it is given; the card accepts the key of the
\* type asked for.
RECURSIVE KeyTrialFrom(_, _, _, _)
KeyTrialFrom(tg, block, with_b, k) ==
    IF k > Len(COMMON_KEYS) THEN [ok |-> FALSE, apdus |-> <<>>]
    ELSE LET sec == IF (block \div 4) \in DOMAIN tg.auth THEN tg.auth[block \div 4]
                    ELSE [a |-> "no sector", b |-> "no sector"]
             a_ok == sec.a = COMMON_KEYS[k]
             b_ok == sec.b = COMMON_KEYS[k]
             these == <<Apdu("load_key", 0, COMMON_KEYS[k], TRUE),
                        Apdu("authenticate", block, KEY_A, a_ok)>>
                      \o (IF ~a_ok /\ with_b
                          THEN <<Apdu("authenticate", block, KEY_B, b_ok)>> ELSE <<>>)
         IN IF a_ok \/ (with_b /\ b_ok) THEN [ok |-> TRUE, apdus |-> these]
            ELSE LET rest == KeyTrialFrom(tg, block, with_b, k + 1)
                 IN [ok |-> rest.ok, apdus |-> these \o rest.apdus]

\* a key trial that starts at the second dictionary entry
AuthReadFromSecond(tg, block) == KeyTrialFrom(tg, block, TRUE, 2)

\* a key trial for writing that also tries key type B
AuthWriteAnyKey(tg, block) == KeyTrialFrom(tg, block, TRUE, 1)

\* the key trial of read_mifare (key A or key B) and of write_mifare (key A)
AuthRead(tg, block) == KeyTrialFrom(tg, block, TRUE, 1)
AuthWrite(tg, block) == KeyTrialFrom(tg, block, FALSE, 1)

\* one pass of the block loop of read_mifare.  st is [data, ndef_length,
\* stop, done, apdus]: the accumulated buffer, the NDEF length once known
\* (-1: None), the block whose key trial failed (0: none), whether the loop
\* was left by a break, the commands sent.  A read_binary on an
\* authenticated block succeeds.
ReadBlock(tg, st, block) ==
    IF st.done THEN st
    ELSE LET trial == IF block % 4 = 0 THEN AuthRead(tg, block)
                      ELSE [ok |-> TRUE, apdus |-> <<>>]
         IN IF ~trial.ok
            THEN [st EXCEPT !.stop = block, !.done = TRUE, !.apdus = @ \o trial.apdus]
            ELSE LET off == BlockOffset(block)
                     data == st.data \o Slice(tg.mem, off, off + 16)
                     pos == Position(data, 3)
                     len == IF st.ndef_length = -1 /\ pos # -1 /\ Len(data) > pos + 1
                            THEN data[pos + 2] ELSE st.ndef_length
                 IN [data |-> data, ndef_length |-> len, stop |-> 0,
                     done |-> len # -1 /\ Len(data) >= len + 3,
                     apdus |-> st.apdus \o trial.apdus
                               \o <<Apdu("read_binary", block, 16, TRUE)>>]

\* the passes for the data blocks number lo..hi of the list, in order, up
\* to a break
RECURSIVE ReadBlocks(_, _, _, _)
ReadBlocks(tg, st, lo, hi) ==
    IF lo = hi THEN ReadBlock(tg, st, MifareDataBlocks[lo])
    ELSE LET half == ReadBlocks(tg, st, lo, (lo + hi) \div 2)
         IN IF half.done THEN half
            ELSE ReadBlocks(tg, half, ((lo + hi) \div 2) + 1, hi)

\* the block loop of read_mifare
ReadMifareLoop(tg) ==
    ReadBlocks(tg, [data |-> <<>>, ndef_length |-> -1, stop |-> 0, done |-> FALSE,
                    apdus |-> <<>>], 1, Len(MifareDataBlocks))

\* read_mifare: [res, apdus]
ReadMifareRun(tg) ==
    LET run == ReadMifareLoop(tg)
    IN [res |-> IF run.data = <<>> THEN Err("No data could be read from the card.")
                ELSE Ok(run.data),
        apdus |-> run.apdus]


\* pages 0..3 of an NTAG: serial number, lock bytes, capability container
\* (the bytes of one NTAG213)
NtagHead == <<4, 161, 178, 159, 195, 212, 229, 128, 114, 72, 0, 0, 225, 16, 18, 0>>

\* apdu::read_binary on an NTAG: length bytes from page on; mem holds the
\* pages from 4 on
ReadBinaryNtag(mem, page, length) ==
    LET all == NtagHead \o mem
        off == page * 4
    IN IF off + length <= Len(all)
       THEN Ok(Slice(all, off, off + length)) ELSE Err("Read Failed")

\* the page loop of read_ntag_v2: pages block..last as `block as u8`, until
\* a read fails: [data, apdus].  The page numbers repeat every 256, so the
\* first failing page, if any, is among the first 256.
ReadPages(mem, block, last) ==
    LET all == NtagHead \o mem
        window == block..(IF last < block + 255 THEN last ELSE block + 255)
        bad == {q \in window : ~ReadBinaryNtag(mem, U8(q), 4).ok}
        stop == IF bad = {} THEN last + 1
                ELSE CHOOSE q \in bad : \A x \in bad : q <= x
        issued == IF bad = {} THEN stop - block ELSE stop - block + 1
    IN [data |-> [k \in 1..(4 * (stop - block)) |->
                    all[U8(block + ((k - 1) \div 4)) * 4 + ((k - 1) % 4) + 1]],
        apdus |-> [i \in 1..issued |->
                    Apdu("read_binary", U8(block + i - 1), 4, block + i - 1 < stop)]]

\* read_ntag_v2: [res, apdus]
ReadNtagV2Run(tg) ==
    LET initial == ReadBinaryNtag(tg.mem, 4, 16)
        first == <<Apdu("read_binary", 4, 16, initial.ok)>>
    IN IF ~initial.ok
       THEN [res |-> Err("Failed to read start of NDEF: Read Failed"), apdus |-> first]
       ELSE IF initial.val[1] # 3
       THEN [res |-> Err("No NDEF container found (Tag 0x03 missing)"), apdus |-> first]
       ELSE LET long == initial.val[2] = 255
                ndef_len == IF long THEN initial.val[3] * 256 + initial.val[4]
                            ELSE initial.val[2]
                header_offset == IF long THEN 4 ELSE 2
                total_pages_to_read == (ndef_len + header_offset + 3) \div 4
                pages == ReadPages(tg.mem, 4, 4 + total_pages_to_read - 1)
                full_data == pages.data
            IN [res |-> IF Len(full_data) >= header_offset + ndef_len
                        THEN Ok(Slice(full_data, header_offset, header_offset + ndef_len))
                        ELSE Err("Incomplete read: card ended before NDEF length reached"),
                apdus |-> first \o pages.apdus]

\* cards::read_ntag, the NTAG read handle_card_insertion calls: the
\* TLV-guided read flow
ReadNtagRun(tg) == ReadNtagV2Run(tg)

\* data padded with zeros to a multiple of n
PadTo(data, n) == data \o Zeros((n - (Len(data) % n)) % n)

\* bytes of mem from off on replaced by chunk
Patch(mem, off, chunk) ==
    [k \in DOMAIN mem |-> IF k > off /\ k <= off + Len(chunk) THEN chunk[k - off] ELSE mem[k]]

\* write_ntag: [res, mem, apdus]; an update_binary past the last page
\* fails, the pages before it stay written
WriteNtag(tg, data) ==
    LET padded == PadTo(data, 4)
        fits == Len(padded) <= Len(tg.mem)
        done == IF fits THEN padded ELSE Slice(padded, 0, Len(tg.mem))
        issued == (Len(done) \div 4) + (IF fits THEN 0 ELSE 1)
    IN [res |-> IF fits THEN Ok(<<>>) ELSE Err("Write Failed"),
        mem |-> Patch(tg.mem, 0, done),
        apdus |-> [i \in 1..issued |->
                    Apdu("update_binary", 4 + i - 1, 4, 4 * i <= Len(done))]]

\* one pass of the while loop of write_mifare with current_block = block.
\* st is [res, offset, done, apdus]: done when the loop was left (offset
\* reached the end of data, or an error was returned).
WriteBlock(tg, data, st, block) ==
    IF st.done THEN st
    ELSE IF st.offset >= Len(data) THEN [st EXCEPT !.done = TRUE]
    ELSE IF (block + 1) % 4 = 0 THEN st
    ELSE LET trial == IF block % 4 = 0 THEN AuthWrite(tg, block)
                      ELSE [ok |-> TRUE, apdus |-> <<>>]
             fits == BlockOffset(block) + 16 <= Len(tg.mem)
         IN IF ~trial.ok
            THEN [st EXCEPT !.res = Err("Write Auth Failed"), !.done = TRUE,
                            !.apdus = @ \o trial.apdus]
            ELSE IF ~fits
            THEN [st EXCEPT !.res = Err("Write Failed"), !.done = TRUE,
                            !.apdus = @ \o trial.apdus
                                        \o <<Apdu("update_binary", block, 16, FALSE)>>]
            ELSE [st EXCEPT !.offset = @ + 16,
                            !.apdus = @ \o trial.apdus
                                        \o <<Apdu("update_binary", block, 16, TRUE)>>]

\* the passes with current_block = lo..hi, in order, until the loop is left
RECURSIVE WriteBlocks(_, _, _, _, _)
WriteBlocks(tg, data, st, lo, hi) ==
    IF lo = hi THEN WriteBlock(tg, data, st, lo)
    ELSE LET half == WriteBlocks(tg, data, st, lo, (lo + hi) \div 2)
         IN IF half.done THEN half
            ELSE WriteBlocks(tg, data, half, ((lo + hi) \div 2) + 1, hi)

\* a write_mifare whose current_block starts at 5
WriteMifareFromFive(tg, data) ==
    LET run == WriteBlocks(tg, data, [res |-> Ok(<<>>), offset |-> 0, done |-> FALSE,
                                      apdus |-> <<>>], 5, 64)
        chunks == Slice(PadTo(data, 16), 0, run.offset)
    IN [res |-> run.res, mem |-> Patch(tg.mem, 0, chunks), apdus |-> run.apdus]

\* write_mifare: [res, mem, apdus].  current_block runs from 4; the card
\* has no block 64, where the loop ends at the latest.  The chunks are 16
\* bytes of data, the last one padded with zeros, and the data blocks
\* follow each other in mem.
WriteMifare(tg, data) ==
    LET run == WriteBlocks(tg, data, [res |-> Ok(<<>>), offset |-> 0, done |-> FALSE,
                                      apdus |-> <<>>], 4, 64)
        chunks == Slice(PadTo(data, 16), 0, run.offset)
    IN [res |-> run.res, mem |-> Patch(tg.mem, 0, chunks), apdus |-> run.apdus]

\* the ATR's last byte: "6a" is CARD_TYPE_MIFARE_1K, anything else an NTAG
IsMifare(tg) == tg.family = "mifare"

\* write_nfc_data_cli steps 3-5 on a connected card: [res, mem, apdus]
WriteTag(tg, payloads) ==
    LET full_ndef_buffer == EncodeMultiRecordNdef(payloads)
        w == IF IsMifare(tg) THEN WriteMifare(tg, full_ndef_buffer)
             ELSE WriteNtag(tg, full_ndef_buffer)
    IN [res |-> IF w.res.ok THEN w.res ELSE Err(<<"Write failed: ", w.res.val>>),
        mem |-> w.mem, apdus |-> w.apdus]

\* the read of handle_card_insertion on a connected card: [res, apdus]
InsertionRead(tg) == IF IsMifare(tg) THEN ReadMifareRun(tg) ELSE ReadNtagRun(tg)

\* the read of read_nfc_data_cli on a connected card: [res, apdus]
CliRead(tg) == IF IsMifare(tg) THEN ReadMifareRun(tg) ELSE ReadNtagV2Run(tg)

\* handle_card_insertion on a connected card: the events after CARD_STATUS;
\* last is cache.last_data_read as a set ({}: None)
ReadTagEvents(tg, last) ==
    LET data_res == InsertionRead(tg).res
    IN IF data_res.ok
       THEN LET d == DecodeNdefText(data_res.val)
            IN IF d.ok
               THEN IF d.val \notin last THEN <<DATA_READ_SUCCESS(d.val)>> ELSE <<>>
               ELSE <<DATA_READ_ERROR("Empty/Non-NDEF")>>
       ELSE <<DATA_READ_ERROR(data_res.val)>>

(***************************************************************************)
(* One tag resting on a connected reader: Write commands and insertion     *)
(* reads (handle_write_command_v2, handle_card_insertion) at byte level.   *)
(***************************************************************************)
Hello == <<104, 101, 108, 108, 111>>
ExampleCom == <<101, 120, 97, 109, 112, 108, 101, 46, 99, 111, 109>>
Rec(data_type, content) == [data_type |-> data_type, content |-> content]

\* the payload lists the Write commands of SpecTag carry; the last record
\* content makes the wrapped message fill the 45 data blocks
WritePayloads ==
    {<<Rec("TEXT", Hello)>>, <<Rec("TEXT", <<>>)>>,
     <<Rec("TEXT", [k \in 1..LongLen |-> 97])>>,
     <<Rec("APP", ExampleCom)>>, <<Rec("TEXT", Hello), Rec("URL", ExampleCom)>>,
     <<Rec("TEXT", [k \in 1..FullLen |-> 97])>>}

\* keys of a MIFARE sector: as shipped, the NFC Forum key as key A, a
\* dictionary key as key B only, no dictionary key
Factory == [a |-> "FFFFFFFFFFFF", b |-> "FFFFFFFFFFFF"]

\* blank tags of both families; on a MIFARE one sector's keys vary
BlankTags ==
    {[family |-> "ntag", mem |-> Zeros(4 * NtagPages), auth |-> <<>>]}
    \cup {[family |-> "mifare", mem |-> Zeros(MifareBytes),
           auth |-> [s \in 1..15 |-> IF s = x THEN k ELSE Factory]]
          : x \in 1..MaxKeyedSector,
            k \in {Factory,
                   [a |-> "A0A1A2A3A4A5", b |-> "112233445566"],
                   [a |-> "112233445566", b |-> "B0B1B2B3B4B5"],
                   [a |-> "112233445566", b |-> "665544332211"]}}

\* a MIFARE written by another device: two NULL TLVs, then the NDEF TLV of
\* the text "hello!" (a 13-byte message) and the terminator
ForeignMifare ==
    [family |-> "mifare",
     mem |-> Patch(Zeros(MifareBytes), 0,
                   <<0, 0, 3, 13>> \o EncodeNdefMessage(Hello \o <<33>>) \o <<254>>),
     auth |-> [s \in 1..15 |-> Factory]]

\* an NTAG of BigPages pages written by another device: an NDEF TLV in the
\* three-byte length form declaring len bytes, then the message
LongMessage(len) == [k \in 1..len |-> 32 + (k % 90)]
LongNtag(len) ==
    [family |-> "ntag",
     mem |-> LET content == <<3, 255, len \div 256, len % 256>> \o LongMessage(len)
                                \o <<254>>
             IN [k \in 1..(4 * BigPages) |-> IF k <= Len(content) THEN content[k] ELSE 0],
     auth |-> <<>>]

Tags == BlankTags \cup {ForeignMifare, LongNtag(MidDeclared), LongNtag(LongDeclared)}

InitTag ==
    /\ InitWith(0, 0) /\ svc /\ plugged = Readers
    /\ tag \in Tags
    /\ tagEv = <<>>
    /\ tagOp = NoOp /\ apdus = <<>> /\ readRes = NoResult
    /\ IdleCodec

\* a Write command reaches the tag (handle_write_command_v2)
TagWrite(payloads) ==
    /\ LET w == WriteTag(tag, payloads)
       IN /\ tag' = [tag EXCEPT !.mem = w.mem]
          /\ tagEv' = IF w.res.ok THEN <<DATA_WRITE_SUCCESS>>
                      ELSE <<DATA_WRITE_ERROR(w.res.val)>>
          /\ apdus' = w.apdus
    /\ tagOp' = [name |-> "write", data |-> EncodeMultiRecordNdef(payloads)]
    /\ readRes' = NoResult
    /\ UNCHANGED <<svars, bvars, cvars>>

\* the tag is taken off and put back: handle_card_insertion with
\* last_data_read = None
TagInsert ==
    /\ tagEv' = <<CARD_STATUS(TRUE)>> \o ReadTagEvents(tag, {})
    /\ tagOp' = [name |-> "insert", data |-> <<>>]
    /\ apdus' = InsertionRead(tag).apdus
    /\ readRes' = InsertionRead(tag).res
    /\ tag' = tag
    /\ UNCHANGED <<svars, bvars, cvars>>

\* the read operation of nfc_service_cli on the tag (read_nfc_data_cli):
\* the records are printed, no event is sent
TagReadCli ==
    /\ tagEv' = <<>>
    /\ tagOp' = [name |-> "read", data |-> <<>>]
    /\ apdus' = CliRead(tag).apdus
    /\ readRes' = CliRead(tag).res
    /\ tag' = tag
    /\ UNCHANGED <<svars, bvars, cvars>>

NextTag ==
    \/ \E p \in WritePayloads : TagWrite(p)
    \/ TagInsert
    \/ TagReadCli

SpecTag == InitTag /\ [][NextTag]_vars

(***************************************************************************)
(* One message through the NDEF codec: the functions of ndef.rs applied in *)
(* the order the service applies them.  A Write's record list is encoded   *)
(* and wrapped, written to an NTAG, read back and parsed                   *)
(* (write_nfc_data_cli, read_nfc_data_cli).                                *)
(***************************************************************************)
Rep(n, b) == [k \in 1..n |-> b]

RECURSIVE Lists(_, _)
Lists(S, n) ==
    IF n = 0 THEN {<<>>}
    ELSE Lists(S, n - 1) \cup {Append(l, x) : l \in Lists(S, n - 1), x \in S}

RECURSIVE Prefixes(_)
Prefixes(b) == IF b = <<>> THEN {<<>>} ELSE {b} \cup Prefixes(SubSeq(b, 1, Len(b) - 1))

\* what goes through the codec.
\* buffer: for parse_ndef_records, short strings of header bytes (SR, IL,
\*   long form, MB/ME) and small lengths, the cuts of a well-formed
\*   two-record message, and single Text records with the text empty or
\*   not and a language code of 2 or 0 bytes;
\* text: UTF-8 texts, "", e-acute or the euro sign, then n letters a;
\* records: lists of records of the three types, and a message of three
\*   records, one of each type;
\* bytes: byte strings for wrap_in_tlv
Jobs ==
    {[kind |-> "buffer", input |-> x] :
        x \in Lists({0, 1, 2, 17, 25, 84, 193, 209}, MaxBufLen)
              \cup Prefixes(EncodeSingleRecordNdef(Hello, "TEXT", TRUE, FALSE)
                            \o EncodeSingleRecordNdef(Hello, "URL", FALSE, TRUE))
              \cup {EncodeSingleRecordNdef(c, "TEXT", TRUE, TRUE) : c \in {<<>>, Hello}}
              \cup {<<209, 1, 1 + Len(c), 84, 0>> \o c : c \in {<<>>, Hello}}}
    \cup {[kind |-> "text", input |-> prefix \o Rep(n, 97)] :
            prefix \in {<<>>, <<195, 169>>, <<226, 130, 172>>}, n \in 0..MaxTextLen}
    \cup {[kind |-> "records", input |-> l] :
            l \in (Lists({Rec(t, c) : t \in {"TEXT", "URL", "APP"},
                                      c \in {<<>>, Hello, Rep(BigLen, 97)}},
                         MaxRecords) \ {<<>>})
                  \cup {<<Rec("TEXT", Hello), Rec("URL", ExampleCom), Rec("APP", Hello)>>}}
    \cup {[kind |-> "bytes", input |-> Rep(n, b)] : n \in 0..MaxWrapLen, b \in {0, 3, 255}}

InitCodec ==
    /\ InitWith(0, 0) /\ svc /\ plugged = Readers /\ IdleTag
    /\ job \in Jobs
    /\ buf = <<>>
    /\ stage = "new"
    /\ result = NoResult

\* encode_ndef_message on a text
EncodeText ==
    /\ job.kind = "text" /\ stage = "new"
    /\ buf' = EncodeNdefMessage(job.input)
    /\ stage' = "encoded"
    /\ UNCHANGED <<job, result, svars, bvars, tvars>>

\* wrap_in_tlv on the encoded text record
WrapText ==
    /\ job.kind = "text" /\ stage = "encoded"
    /\ buf' = WrapInTlv(buf)
    /\ stage' = "wrapped"
    /\ UNCHANGED <<job, result, svars, bvars, tvars>>

\* decode_ndef_text on the wrapped record
DecodeText ==
    /\ job.kind = "text" /\ stage = "wrapped"
    /\ result' = DecodeNdefText(buf)
    /\ stage' = "done"
    /\ UNCHANGED <<job, buf, svars, bvars, tvars>>

\* wrap_in_tlv on a byte string
WrapBytes ==
    /\ job.kind = "bytes" /\ stage = "new"
    /\ buf' = WrapInTlv(job.input)
    /\ stage' = "done"
    /\ UNCHANGED <<job, result, svars, bvars, tvars>>

\* encode_multi_record_ndef on a record list: encoded and wrapped
EncodeRecords ==
    /\ job.kind = "records" /\ stage = "new"
    /\ buf' = EncodeMultiRecordNdef(job.input)
    /\ stage' = "wrapped"
    /\ UNCHANGED <<job, result, svars, bvars, tvars>>

\* a blank NTAG large enough for data, after write_ntag of data
CardHolding(data) ==
    LET size == IF Len(PadTo(data, 4)) < 16 THEN 16 ELSE Len(PadTo(data, 4))
        blank == [family |-> "ntag", mem |-> Zeros(size), auth |-> <<>>]
    IN [blank EXCEPT !.mem = WriteNtag(blank, data).mem]

\* the wrapped message is written to an NTAG and read_ntag_v2 takes it out
\* of its TLV
ReadBack ==
    /\ job.kind = "records" /\ stage = "wrapped"
    /\ LET r == ReadNtagV2Run(CardHolding(buf)).res
       IN /\ result' = IF r.ok THEN Ok(<<>>) ELSE r
          /\ buf' = IF r.ok THEN r.val ELSE buf
    /\ stage' = "read"
    /\ UNCHANGED <<job, svars, bvars, tvars>>

\* parse_ndef_records on what was read
ParseRecords ==
    /\ job.kind = "records" /\ stage = "read" /\ result.ok
    /\ result' = ParseNdefRecords(buf)
    /\ stage' = "done"
    /\ UNCHANGED <<job, buf, svars, bvars, tvars>>

\* parse_ndef_records on a buffer as it comes
ParseBuffer ==
    /\ job.kind = "buffer" /\ stage = "new"
    /\ result' = ParseNdefRecords(job.input)
    /\ stage' = "done"
    /\ UNCHANGED <<job, buf, svars, bvars, tvars>>

NextCodec ==
    \/ ParseBuffer
    \/ EncodeText
    \/ WrapText
    \/ DecodeText
    \/ WrapBytes
    \/ EncodeRecords
    \/ ReadBack
    \/ ParseRecords

SpecCodec == InitCodec /\ [][NextCodec]_vars

(***************************************************************************)
(* Properties of the reader service.                                       *)
(***************************************************************************)
InSession == pc \in {"wait", "commands", "pnp", "cards"}

\* the thread is about to wait and the resource manager has nothing to report
Quiescent == pc = "wait" /\ ctx_ok /\ ~AnyChanged(Reported(reader_states))

\* C1: each insertion of a card gets at most one CARD_STATUS{true}, one
\* CARD_STATUS{false} and one DATA_READ_SUCCESS, and once a detected card is
\* removed and the service has caught up, its CARD_STATUS{false} was emitted
C1_CardCycleEvents ==
    \A r \in Readers :
        /\ h.ct[r] <= 1
        /\ h.cf[r] <= 1
        /\ h.cs[r] <= 1
        /\ (Quiescent /\ ~card[r].present /\ h.ct[r] = 1) => h.cf[r] = 1

\* C2: an insertion whose read decoded a text has produced a DATA_READ_SUCCESS,
\* whatever happened since the previous insertion
C2_EveryInsertionRead ==
    \A r \in Readers : h.dec[r] => h.cs[r] >= 1

\* C3: card_present = false implies last_data_read = None
C3_NoCardNoData ==
    card_present = FALSE => last_data_read = None

\* C4: within one context session the READER_STATUS events of the initial scan
\* and of PnP handling alternate, the cache equals the non-emptiness of the
\* reader list, and the last of these events carries the cached value
C4_ReaderStatusAlternates ==
    /\ \A k \in 1..(Len(h.sessLog) - 1) : h.sessLog[k] # h.sessLog[k + 1]
    /\ InSession => reader_connected = (reader_names # <<>>)
    /\ (InSession /\ h.sessLog # <<>>) => h.sessLog[Len(h.sessLog)] = reader_connected
    /\ (InSession /\ h.sessLog = <<>>) => reader_connected = FALSE

\* a session that reported the reader connected, gone, and connected again
C4_Witness ==
    InSession /\ h.sessLog = <<TRUE, FALSE, TRUE>>

\* C5: once establishing the context has failed after the service was
\* connected, exactly one READER_ERROR has been emitted for the outage
C5_ReaderErrorOnce ==
    (h.outageFailed /\ h.connBefore) => h.outageErrs = 1

\* C6: the initial scan emits one READER_STATUS whose success is the
\* non-emptiness of the reader list
C6_ScanEmitsStatus ==
    [][(pc = "scan" /\ pc' = "wait")
        => emitted' = <<READER_STATUS(reader_names' # <<>>)>>]_vars

\* C7: after a recovery from ServiceStopped / NoService, once the service has
\* caught up, what the clients were told agrees with the hardware
C7_NoClientCorruption ==
    (h.recovered /\ Quiescent) =>
        /\ h.clientReader = (plugged # {})
        /\ h.clientCard = (\E r \in plugged : card[r].present)

\* C8: a dequeued Write yields exactly one DATA_WRITE_SUCCESS or
\* DATA_WRITE_ERROR and the reader thread keeps running
C8_WriteAnswered ==
    [][(pc = "commands" /\ cmdq # <<>> /\ Head(cmdq).kind = "Write" /\ cmdq' = Tail(cmdq))
        => /\ pc' # "dead"
           /\ Len(emitted') = 1
           /\ emitted'[1].type \in {"DATA_WRITE_SUCCESS", "DATA_WRITE_ERROR"}]_vars

\* C9: commands are dequeued in the order they were enqueued, none skipped,
\* and every dequeued command has been answered before the next is taken
C9_CommandsSerial ==
    /\ \A k \in DOMAIN cmdq : cmdq[k].id = h.lastDeq + k
    /\ nextCmd = h.lastDeq + Len(cmdq)
    /\ h.lastResp = h.lastDeq

\* strictly increasing production numbers
Increasing(q) == \A i, j \in DOMAIN q : i < j => q[i] < q[j]

\* C10: every client receives events in the order the reader thread produced
\* them, and any two clients receive the events they both got in the same order
C10_ProductionOrder ==
    /\ \A c \in Clients : Increasing(clients[c].got)
    /\ \A c, d \in Clients :
         \A i, j \in DOMAIN clients[c].got, k, l \in DOMAIN clients[d].got :
            (i < j /\ clients[c].got[i] = clients[d].got[k]
                   /\ clients[c].got[j] = clients[d].got[l]) => k < l

\* both clients were connected while at least two events went through
C10_Witness ==
    /\ \A c \in Clients : Len(clients[c].got) >= 2
    /\ \E i \in DOMAIN clients[1].got, k \in DOMAIN clients[2].got :
          clients[1].got[i] = clients[2].got[k]

\* C11: a subscriber that fell behind by more than the channel capacity keeps
\* receiving: neither the forwarder task nor a client's send task has ended
\* because of lag
C11_LaggedKeepReceiving ==
    /\ fwd.alive
    /\ \A c \in Clients : clients[c].st # "lagged"

\* a step of the card-event loop on the reader at index idx
CardStep ==
    pc = "cards" /\ idx <= Len(reader_names) /\ (pc' # pc \/ idx' # idx)

\* the loop sees a rising PRESENT edge on the reader at index idx
RisingEdge ==
    LET rs == reader_states[idx + 1]
    IN /\ Intersects(rs.ev, "CHANGED")
       /\ Intersects(rs.ev, "PRESENT")
       /\ ~Intersects(rs.cur, "PRESENT")

\* the DATA_READ_SUCCESS and DATA_READ_ERROR events among evs
ReadResults(evs) ==
    {k \in DOMAIN evs : evs[k].type \in {"DATA_READ_SUCCESS", "DATA_READ_ERROR"}}

\* C12: when card-insertion handling cannot connect to the card (no card the
\* resource manager could connect to is on the reader), a DATA_READ_ERROR is
\* emitted
C12_ConnectFailureReported ==
    [][(CardStep /\ ~card_present /\ card_present'
            /\ ~Connectable(reader_names[idx]))
        => HasType(emitted', "DATA_READ_ERROR")]_vars

\* C13: a rising PRESENT edge on a reader emits CARD_STATUS{true}, whatever
\* the other readers hold
C13_PerReaderCardState ==
    [][(CardStep /\ RisingEdge)
        => \E k \in DOMAIN emitted' : emitted'[k] = CARD_STATUS(TRUE)]_vars

\* C14: a CARD_STATUS{true} comes with exactly one DATA_READ_SUCCESS or
\* DATA_READ_ERROR for that insertion
C14_DetectedThenResult ==
    [][(CardStep /\ \E k \in DOMAIN emitted' : emitted'[k] = CARD_STATUS(TRUE))
        => Cardinality(ReadResults(emitted')) = 1]_vars

(***************************************************************************)
(* Properties of tag reads and writes (SpecTag).                           *)
(***************************************************************************)
\* the last thing done to the tag was an insertion read
JustRead == tagEv # <<>> /\ tagEv[1] = CARD_STATUS(TRUE)

\* C15: a card whose user memory is all zero, of either family, answers an
\* insertion read with exactly DATA_READ_ERROR{"Empty/Non-NDEF"}.
C15_BlankReadsEmpty ==
    (JustRead /\ tag.mem = Zeros(Len(tag.mem)))
        => tagEv = <<CARD_STATUS(TRUE), DATA_READ_ERROR("Empty/Non-NDEF")>>

\* the block at which the key trial of a MIFARE read of the tag fails (0: none)
AuthStop == IF IsMifare(tag) THEN ReadMifareLoop(tag).stop ELSE 0

\* C16: when all eight keys fail for a sector during a MIFARE insertion
\* read, the service sends exactly DATA_READ_ERROR{"Auth failed for sector
\* <n>"} for that sector, and no successful read.
C16_AuthFailureNamed ==
    LET msgs == <<"Auth failed for sector 1", "Auth failed for sector 2",
                  "Auth failed for sector 3", "Auth failed for sector 4",
                  "Auth failed for sector 5", "Auth failed for sector 6",
                  "Auth failed for sector 7", "Auth failed for sector 8",
                  "Auth failed for sector 9", "Auth failed for sector 10",
                  "Auth failed for sector 11", "Auth failed for sector 12",
                  "Auth failed for sector 13", "Auth failed for sector 14",
                  "Auth failed for sector 15">>
    IN (JustRead /\ AuthStop # 0)
        => /\ Len(tagEv) = 2
           /\ tagEv[2].type = "DATA_READ_ERROR"
           /\ tagEv[2].arg = msgs[AuthStop \div 4]

\* C17: on an NTAG, a Write of the single TEXT record "hello" to a blank
\* tag leaves 03 0C D1 01 08 54 02 65 6E 68 65 6C 6C 6F FE 00 00 from page
\* 4 on, and an insertion read of a tag holding these bytes sends
\* DATA_READ_SUCCESS{"hello"}.
C17_NtagWriteThenRead ==
    [][LET bytes == <<3, 12, 209, 1, 8, 84, 2, 101, 110, 104, 101, 108, 108, 111,
                      254, 0, 0>>
           ntag == tag.family = "ntag"
       IN /\ (ntag /\ tag.mem = Zeros(Len(tag.mem)) /\ TagWrite(<<Rec("TEXT", Hello)>>))
               => (tagEv' = <<DATA_WRITE_SUCCESS>> /\ Slice(tag'.mem, 0, 17) = bytes)
          /\ (ntag /\ Slice(tag.mem, 0, 17) = bytes /\ TagInsert)
               => /\ Len(tagEv') = 2
                  /\ tagEv'[2].type = "DATA_READ_SUCCESS"
                  /\ tagEv'[2].arg = Hello]_vars

(***************************************************************************)
(* Properties of the NDEF codec (SpecCodec).                               *)
(***************************************************************************)
\* C18: for every UTF-8 text s of any length,
\* decode_ndef_text(wrap_in_tlv(encode_ndef_message(s))) is Ok(s).
C18_TextRoundTrip ==
    (job.kind = "text" /\ stage = "done") => (result.ok /\ result.val = job.input)

\* C19: for every non-empty list of TEXT/URL/APP records with contents
\* under 200 bytes, wrapping the multi-record encoding, unwrapping it and
\* parsing it yields as many records, in order, each with the payload that
\* was encoded (for Text: the content, status byte and language stripped).
C19_RecordsRoundTrip ==
    LET EncodedPayload(r) ==
            IF r.data_type = "URL" THEN <<0>> \o r.content ELSE r.content
    IN (job.kind = "records" /\ stage \in {"read", "done"})
        => /\ result.ok
           /\ stage = "done"
                => /\ Len(result.val) = Len(job.input)
                   /\ \A i \in DOMAIN job.input :
                        result.val[i].payload = EncodedPayload(job.input[i])

\* C20: wrap_in_tlv(x) is 0x03, the length (one byte under 255, else 0xFF
\* and the length as big-endian u16), x, 0xFE.
C20_TlvFormat ==
    LET x == job.input
        L == IF Len(x) < 255 THEN <<Len(x)>>
             ELSE <<255, Len(x) \div 256, Len(x) % 256>>
    IN (job.kind = "bytes" /\ stage = "done") => buf = <<3>> \o L \o x \o <<254>>

\* C21: parse_ndef_records never aborts: on every buffer it returns the
\* records or the error TruncatedRecord (when a field would pass the end of
\* the buffer).
C21_ParseNeverAborts ==
    (job.kind = "buffer" /\ stage = "done")
        => (result.ok \/ result.val = "TruncatedRecord")

(***************************************************************************)
(* Properties of the commands sent to the reader (SpecTag).                *)
(***************************************************************************)
\* the last operation was a read of a MIFARE card
MifareRead == tagOp.name \in {"insert", "read"} /\ IsMifare(tag)

C23_ReadCoversContainer ==
    (MifareRead /\ readRes.ok /\ AuthStop = 0) =>
    LET b == readRes.val
        pos == Position(b, 3)
    IN (pos # -1 /\ Len(b) > pos + 1) =>
         /\ Len(b) >= pos + 2 + b[pos + 2] + 1 \/ Len(b) = MifareBytes
         /\ Len(b) - 16 < pos + 2 + b[pos + 2] + 1

\* the last operation was a Write to a MIFARE card that succeeded
MifareWritten == tagOp.name = "write" /\ IsMifare(tag) /\ tagEv = <<DATA_WRITE_SUCCESS>>

\* C24: a successful write_mifare of N bytes, 1 <= N <= 720, sends exactly
\* ceil(N/16) update-binary commands of 16 bytes, to the first ceil(N/16)
\* blocks of the data block list in order from block 4, never to a trailer
\* block; the card then holds the data, the last block zero-padded; the
\* skip test (block+1) mod 4 = 0 selects exactly the blocks with
\* block mod 4 = 3.
C24_WriteBlockCount ==
    (MifareWritten /\ Len(tagOp.data) \in 1..MifareBytes) =>
    LET N == Len(tagOp.data)
        count == (N + 15) \div 16
        IsUpdate(a) == a.op = "update_binary"
        updates == SelectSeq(apdus, IsUpdate)
    IN /\ Len(updates) = count
       /\ \A i \in 1..count :
            /\ updates[i].block = MifareDataBlocks[i]
            /\ updates[i].block % 4 # 3
            /\ updates[i].arg = 16 /\ updates[i].ok
       /\ updates[1].block = 4
       /\ Slice(tag.mem, 0, 16 * count) = PadTo(tagOp.data, 16)
       /\ \A block \in 0..254 : ((block + 1) % 4 = 0) <=> (block % 4 = 3)

\* the 720-byte message was written to all 45 data blocks
C24_Witness ==
    /\ MifareWritten /\ Len(tagOp.data) = MifareBytes
    /\ apdus[Len(apdus)].op = "update_binary" /\ apdus[Len(apdus)].block = 62

\* C25: the NTAG read fails with the no-NDEF-container error when byte 0 of
\* page 4 is not 0x03; otherwise it takes the length from byte 1 (header 2)
\* or, when byte 1 is 0xFF, from bytes 2-3 (header 4), reads exactly
\* ceil((header+length)/4) pages from page 4 on and returns exactly the
\* bytes [header..header+length) of the user memory.
C25_NtagRead ==
    (tagOp.name = "read" /\ ~IsMifare(tag)) =>
    LET long == tag.mem[2] = 255
        length == IF long THEN tag.mem[3] * 256 + tag.mem[4] ELSE tag.mem[2]
        header == IF long THEN 4 ELSE 2
        total == (header + length + 3) \div 4
        reads == SubSeq(apdus, 2, Len(apdus))
    IN IF tag.mem[1] # 3
       THEN /\ ~readRes.ok
            /\ readRes.val = "No NDEF container found (Tag 0x03 missing)"
       ELSE /\ Len(reads) = total
            /\ \A i \in 1..total : reads[i] = Apdu("read_binary", 4 + i - 1, 4, TRUE)
            /\ readRes.ok
            /\ readRes.val = Slice(tag.mem, header, header + length)

\* C26: for a declared length that spans 64 pages or more, the i-th page
\* read of the NTAG read addresses page 4+i (i from 0), the page number
\* never wraps around, and the bytes returned are the declared message
\* (every page read being answered by the card).
C26_NoPageWrap ==
    LET length == tag.mem[3] * 256 + tag.mem[4]
        reads == SubSeq(apdus, 2, Len(apdus))
    IN (/\ tagOp.name = "read" /\ ~IsMifare(tag)
        /\ tag.mem[1] = 3 /\ tag.mem[2] = 255
        /\ (4 + length + 3) \div 4 >= 64
        /\ \A i \in 1..Len(reads) : reads[i].ok) =>
       /\ \A i \in 1..Len(reads) : reads[i].block = 4 + (i - 1)
       /\ readRes.ok
       /\ readRes.val = LongMessage(length)

\* C27: in the message encode_multi_record_ndef builds for n >= 1 records,
\* the header of record i has MB set iff it is the first record, ME set iff
\* it is the last, CF = 0, SR = 1 and IL = 0; a single record has header
\* 0xD1 for TEXT and URL and 0xD4 for APP; three records carry (MB, ME) =
\* (1,0), (0,0), (0,1).  The header of record i follows the two TLV bytes
\* and the records before it, each of three bytes, its type and its payload.
C27_RecordFlags ==
    (job.kind = "records" /\ stage = "wrapped") =>
    LET n == Len(job.input)
        RecordLen(p) ==
            3 + (IF p.data_type = "TEXT" THEN Len(TypeT) + 1 + Len(LangEn)
                 ELSE IF p.data_type = "URL" THEN Len(TypeU) + 1
                 ELSE Len(TypeApp)) + Len(p.content)
        RECURSIVE HeaderPos(_)
        HeaderPos(i) ==
            IF i = 1 THEN 3 ELSE HeaderPos(i - 1) + RecordLen(job.input[i - 1])
        hdr(i) == buf[HeaderPos(i)]
        Bit(b, k) == (b \div (2 ^ k)) % 2
    IN /\ \A i \in 1..n :
            /\ Bit(hdr(i), 7) = (IF i = 1 THEN 1 ELSE 0)
            /\ Bit(hdr(i), 6) = (IF i = n THEN 1 ELSE 0)
            /\ Bit(hdr(i), 5) = 0
            /\ Bit(hdr(i), 4) = 1
            /\ Bit(hdr(i), 3) = 0
       /\ n = 1 => hdr(1) = (IF job.input[1].data_type = "APP" THEN 212 ELSE 209)
       /\ n = 3 => /\ <<Bit(hdr(1), 7), Bit(hdr(1), 6)>> = <<1, 0>>
                   /\ <<Bit(hdr(2), 7), Bit(hdr(2), 6)>> = <<0, 0>>
                   /\ <<Bit(hdr(3), 7), Bit(hdr(3), 6)>> = <<0, 1>>

\* a message of three records, one of each type, was encoded: the headers
\* 0x91, 0x11 and 0x54 stand at bytes 3, 15 and 31
C27_Witness ==
    /\ job.kind = "records" /\ stage = "wrapped"
    /\ Len(job.input) = 3
    /\ <<job.input[1].data_type, job.input[2].data_type, job.input[3].data_type>>
         = <<"TEXT", "URL", "APP">>
    /\ Len(buf) >= 31
    /\ buf[3] = 145 /\ buf[15] = 17 /\ buf[31] = 84

\* C28: for a Text record (one short record of TNF 1 and type "T" whose
\* payload holds the status byte and the language code it announces)
\* parse_ndef_records returns the payload without the status byte and the
\* lang_len = payload[0] & 0x3F language bytes, also when the text that
\* remains is empty (the payload returned is then empty).
C28_TextStripped ==
    (/\ job.kind = "buffer" /\ stage = "done"
     /\ Len(job.input) >= 5
     /\ job.input[1] = 209 /\ job.input[2] = 1 /\ job.input[4] = 84
     /\ Len(job.input) = 4 + job.input[3]
     /\ job.input[3] >= 1 + (job.input[5] % 64)) =>
    /\ result.ok
    /\ Len(result.val) = 1
    /\ result.val[1].payload =
         Slice(job.input, 4 + 1 + (job.input[5] % 64), Len(job.input))

\* C29: in every state of the reader loop, entry 0 of reader_states is the
\* PnP sentinel and entries 1..n belong, in order, to the n names of
\* reader_names (so len(reader_states) = len(reader_names) + 1): after the
\* initial enumeration, after every PnP re-enumeration and after a failed
\* enumeration; hence reader_names[i-1] exists for every index i the
\* card-event loop visits.
C29_ReaderIndexing ==
    /\ Len(reader_states) = Len(reader_names) + 1
    /\ reader_states[1].name = PNP_NOTIFICATION
    /\ \A i \in 1..Len(reader_names) : reader_states[i + 1].name = reader_names[i]
    /\ pc = "cards" => idx \in 1..Len(reader_names)
    /\ pc # "dead"

\* the card-event loop is at its second index with two readers listed
C29_Witness ==
    /\ pc = "cards" /\ idx = 2
    /\ reader_names = <<1, 2>>
    /\ reader_states[3].name = reader_names[2]

\* C30: in read_mifare and write_mifare every read-binary or update-binary
\* on a block B comes after a successful authenticate on the first block
\* 4 * (B div 4) of B's sector, sent after the last access to any other
\* sector; no block of a sector is accessed after the key trial of that
\* sector failed; write_mifare authenticates with key type A only.
C30_AuthBeforeAccess ==
    (tagOp.name \in {"write", "insert", "read"} /\ IsMifare(tag)) =>
    LET n == Len(apdus)
        IsAccess(i) == apdus[i].op \in {"read_binary", "update_binary"}
        IsAuth(i) == apdus[i].op = "authenticate"
        Sector(i) == apdus[i].block \div 4
        TrialFailed(s) ==
            /\ \E i \in 1..n : IsAuth(i) /\ Sector(i) = s
            /\ \A i \in 1..n : (IsAuth(i) /\ Sector(i) = s) => ~apdus[i].ok
    IN /\ \A j \in 1..n : IsAccess(j) =>
            \E i \in 1..(j - 1) :
                /\ IsAuth(i) /\ apdus[i].ok
                /\ apdus[i].block = 4 * Sector(j)
                /\ \A k \in (i + 1)..(j - 1) : IsAccess(k) /\ Sector(k) = Sector(j)
       /\ \A j \in 1..n : IsAccess(j) => ~TrialFailed(Sector(j))
       /\ \A i \in 1..(n - 1) : (IsAuth(i) /\ ~apdus[i].ok) =>
            apdus[i + 1].op \in {"load_key", "authenticate"}
       /\ tagOp.name = "write" => \A i \in 1..n : IsAuth(i) => apdus[i].arg = KEY_A

\* a write went from sector 1 into sector 2: block 8 was written right
\* after the authenticate on block 8 with key type A
C30_Witness ==
    /\ tagOp.name = "write" /\ IsMifare(tag)
    /\ \E j \in 2..Len(apdus) :
         /\ apdus[j].op = "update_binary" /\ apdus[j].block = 8 /\ apdus[j].ok
         /\ apdus[j - 1].op = "authenticate" /\ apdus[j - 1].block = 8
         /\ apdus[j - 1].arg = KEY_A /\ apdus[j - 1].ok
         /\ \E k \in 1..(j - 1) :
              apdus[k].op = "update_binary" /\ apdus[k].block = 6 /\ apdus[k].ok

\* C31: every change of the cached reader_connected comes with an event
\* that carries the new value (READER_STATUS, or READER_ERROR for a loss),
\* so the reader state a client last received is the one the service
\* answers to a status query.
C31_CacheChangeReported == h.clientReader = reader_connected

\* C32: card_present does not stay true once the card is gone: when from
\* some moment on no reader holds a card (the reader having been unplugged
\* or re-enumerated meanwhile or not), then from some moment on
\* card_present is false and the clients have been told
\* CARD_STATUS{false}; runs in which the PC/SC service went down and the
\* inner loop was left are not considered.
C32_CardGoneNoticed ==
    <>[](\A r \in Readers : ~card[r].present)
        => <>[]((~card_present /\ ~h.clientCard) \/ h.broke)

\* C33: processing a command (Write or CheckReaderStatus) leaves the service
\* state as it was: reader_connected, card_present and last_data_read keep
\* their values, whether the write succeeded or failed, and no
\* DATA_READ_SUCCESS is sent: a successful write to a resting card causes no
\* re-read.
C33_CommandFrame ==
    [][(pc = "commands" /\ cmdq # <<>> /\ h'.lastDeq # h.lastDeq) =>
          /\ reader_connected' = reader_connected
          /\ card_present' = card_present
          /\ last_data_read' = last_data_read
          /\ ~HasType(emitted', "DATA_READ_SUCCESS")]_vars

\* a Write command has just succeeded on a card that had been read before
C33_Witness ==
    /\ pc = "commands" /\ h.lastResp >= 1
    /\ emitted = <<DATA_WRITE_SUCCESS>>
    /\ card_present /\ last_data_read \in Texts

====
